---- MODULE Spec2Model ----
(***************************************************************************)
(* Model of ping.go: the single-attempt probe routine ping() and the       *)
(* driver loop of main().  The program is single-threaded; every statement *)
(* that calls into the operating system or the icmp library is one action, *)
(* and the outcome of such a call (success, error, delay, the datagram     *)
(* that arrives) is chosen by the environment.                             *)
(***************************************************************************)
EXTENDS Integers, FiniteSets, Sequences, TLC

\* ---------------------------------------------------------------- bounds
MaxAttempts == 20        \* iterations of the driver loop that are explored
MaxWriteDelay == 1       \* ms that WriteTo may take
MaxSchedDelay == 1       \* ms between ReadFrom returning and time.Since

\* ------------------------------------------------------ program constants
ProtocolICMP == 1
ProtocolIPv6ICMP == 58
Timeout == 500           \* ms, the read deadline of one attempt
SummaryEvery == 10       \* the driver logs a summary every 10th attempt
IDMask == 65536          \* os.Getpid() & 0xffff  ==  pid % 65536
EchoSeq == 1
SleepMs == 2000           \* ms, time.Sleep(2 * time.Second)

\* ipv4.ICMPType / ipv6.ICMPType values: a Go value of a named type, so the
\* type (family) is part of the value and of every comparison.
ICMPv4Echo == [fam |-> 4, num |-> 8]
ICMPv4EchoReply == [fam |-> 4, num |-> 0]
ICMPv6EchoRequest == [fam |-> 6, num |-> 128]
ICMPv6EchoReply == [fam |-> 6, num |-> 129]

\* ------------------------------------------------------------ environment
\* Addresses net.ResolveIPAddr can produce: an IPv4 address, an IPv4-mapped
\* IPv6 address and a proper IPv6 address.
Addrs == {"192.0.2.1", "::ffff:192.0.2.1", "2001:db8::1"}
Pids == {4242, 70000}
StartTimes == {1000}
\* Delay (ms after the deadline was set) at which a datagram becomes readable.
ReplyDelays == {0, Timeout - 1, Timeout + 1}
\* First byte of a received ICMP message: v4 echo reply, v4 destination
\* unreachable, v4 echo, v6 echo request, v6 echo reply.
WireTypes == {0, 3, 8, 128, 129}

NoConn == [net |-> "none", id |-> 0]
NoBytes == [type |-> [fam |-> 0, num |-> 0], code |-> 0, id |-> 0, seq |-> 0, len |-> 0]
NoReply == [type |-> 0, id |-> 0, seq |-> 0, peer |-> "nil", n |-> 0]
NoMsg == [fam |-> 0, num |-> 0]
NoResult == [dst |-> "nil", rtt |-> 0, err |-> "none"]
NoSummary == [pl |-> 0, lost |-> 0, divisor |-> 0]

VARIABLES
    pc,             \* position of the single thread of control
    pid,            \* os.Getpid()
    sentCount,      \* main: sentCount
    receivedCount,  \* main: receivedCount
    dst,            \* ping: dst (resolved address, "nil" before resolution)
    branch,         \* ping: 4 in the To4() != nil branch, 6 in the else branch
    c,              \* ping: the icmp.PacketConn of this attempt
    openSocks,      \* sockets opened by ListenPacket and not yet Close()d
    b,              \* ping: the marshalled echo request
    txCount,        \* datagrams transmitted during the current attempt
    rxCount,        \* datagrams read during the current attempt
    start,          \* ping: start timestamp (ms)
    now,            \* the clock (ms), meaningful inside an attempt
    tDeadlineSet,   \* clock reading when SetReadDeadline was called
    deadline,       \* the read deadline set on the socket
    tRead,          \* clock reading when ReadFrom returned a datagram
    reply,          \* ping: response[:n] and peer
    RTT,            \* ping: RTT
    rm,             \* ping: rm.Type
    result,         \* what ping returned to the driver's closure
    logged,         \* lines logged during the current loop iteration
    summaryLine,    \* the values of the summary line of this iteration
    attempts,       \* history: number of calls of ping
    successes,      \* history: number of returns of ping with a nil error
    idleMs          \* history: ms slept since the last return of ping

vars == <<pc, pid, sentCount, receivedCount, dst, branch, c, openSocks, b, txCount,
          start, now, tDeadlineSet, deadline, tRead, reply, RTT, rm, result, logged,
          summaryLine, attempts, successes, rxCount, idleMs>>

pingLocals ==
    <<dst, branch, b, txCount, rxCount, start, now, tDeadlineSet, deadline, tRead, reply, RTT,
      rm>>
driverVars == <<sentCount, receivedCount, logged, summaryLine>>

\* ------------------------------------------------------- pure helpers
\* net.IP.To4: non-nil for an IPv4 address and for an IPv4-mapped IPv6 address.
To4(ip) == IF ip \in {"192.0.2.1", "::ffff:192.0.2.1"} THEN "192.0.2.1" ELSE "nil"

\* The family branch ping takes for a resolved address.
FamilyOf(ip) == IF To4(ip) # "nil" THEN 4 ELSE 6

\* First argument of icmp.ListenPacket in each branch.
Network(br) == IF br = 4 THEN "udp4" ELSE "udp6"

\* Type of the icmp.Message built in each branch.
RequestType(br) == IF br = 4 THEN ICMPv4Echo ELSE ICMPv6EchoRequest

\* Mutant of ParseProto: the else branch kept the protocol of the first branch.
ParseProto_AlwaysICMP(br) == ProtocolICMP

\* First argument of icmp.ParseMessage in each branch.
ParseProto(br) == IF br = 4 THEN ProtocolICMP ELSE ProtocolIPv6ICMP

\* The case label of the switch on rm.Type in each branch.
EchoReplyType(br) == IF br = 4 THEN ICMPv4EchoReply ELSE ICMPv6EchoReply

\* Mutant of EchoID: the mask is missing.
EchoID_Unmasked(p) == p

\* os.Getpid() & 0xffff
EchoID(p) == p % IDMask

\* icmp.Message{Type, Code: 0, Body: &icmp.Echo{ID, Seq: 1, Data: ""}}.Marshal(nil)
Marshal(br, p) ==
    [type |-> RequestType(br), code |-> 0, id |-> EchoID(p), seq |-> EchoSeq, len |-> 8]

\* Mutant of ParseOK: a message whose sequence number is not the one sent is
\* rejected.
ParseOK_MatchesSeq(bytes) == bytes.n >= 4 /\ bytes.seq = EchoSeq

\* icmp.ParseMessage(proto, bytes): the message type is an ipv4.ICMPType for
\* protocol 1 and an ipv6.ICMPType for protocol 58; fewer than 4 bytes is an error.
ParseOK(bytes) == bytes.n >= 4
ParseMessage(proto, bytes) ==
    [fam |-> IF proto = ProtocolICMP THEN 4 ELSE 6, num |-> bytes.type]

\* Mutant of DeadlineAt: the Add is missing, the deadline is now.
DeadlineAt_Now(t) == t

\* Mutant of DeadlineAt: the deadline is 10 s after now.
DeadlineAt_TenSeconds(t) == t + 20 * Timeout

\* time.Now().Add(500 * time.Millisecond)
DeadlineAt(t) == t + Timeout

\* time.Since(start)
Since(s, t) == t - s

\* Mutant of SummaryDue: the test is made on the count before its increment.
SummaryDue_BeforeIncrement(sent) == (sent - 1) % SummaryEvery = 0

\* sentCount%10 == 0
SummaryDue(sent) == sent % SummaryEvery = 0

\* Mutant of PacketLoss: the multiplication comes before the division.
PacketLoss_Scaled(sent, recv) == (100 * (sent - recv)) \div sent

\* ((sentCount - receivedCount) / sentCount) * 100, on Go ints
PacketLoss(sent, recv) == ((sent - recv) \div sent) * 100

\* Datagrams the socket can deliver: a message of any type that answers the
\* request just sent, an echo reply of either family from an unrelated sender
\* to an unrelated request, and a truncated message.
Datagrams ==
    {[type |-> t, id |-> EchoID(pid), seq |-> EchoSeq, peer |-> dst, n |-> 8] : t \in WireTypes}
    \cup {[type |-> t, id |-> EchoID(pid) + 1, seq |-> EchoSeq + 1, peer |-> "198.51.100.9", n |-> 8] :
            t \in {ICMPv4EchoReply.num, ICMPv6EchoReply.num}}
    \cup {[type |-> 0, id |-> 0, seq |-> 0, peer |-> dst, n |-> 2]}

\* ----------------------------------------------------------------- Init
Init ==
    /\ pc = "loop"
    /\ pid \in Pids
    /\ sentCount = 0
    /\ receivedCount = 0
    /\ dst = "nil"
    /\ branch = 0
    /\ c = NoConn
    /\ openSocks = {}
    /\ b = NoBytes
    /\ txCount = 0
    /\ rxCount = 0
    /\ start = 0
    /\ now = 0
    /\ tDeadlineSet = 0
    /\ deadline = 0
    /\ tRead = 0
    /\ reply = NoReply
    /\ RTT = 0
    /\ rm = NoMsg
    /\ result = NoResult
    /\ logged = {}
    /\ summaryLine = NoSummary
    /\ attempts = 0
    /\ successes = 0
    /\ idleMs = 0

\* Mutant of Return: the defer c.Close() is missing.
Return_NoClose(d, r, e) ==
    /\ result' = [dst |-> d, rtt |-> r, err |-> e]
    /\ successes' = IF e = "nil" THEN successes + 1 ELSE successes
    /\ idleMs' = 0
    /\ pc' = "ret"
    /\ UNCHANGED <<pid, driverVars, attempts, c, openSocks>>

\* ------------------------------------------------- how ping() is left
\* return d, r, e: the deferred c.Close() runs (when a socket was opened),
\* and the closure of main receives the three values.
Return(d, r, e) ==
    /\ result' = [dst |-> d, rtt |-> r, err |-> e]
    /\ openSocks' = IF c = NoConn THEN openSocks ELSE openSocks \ {c.id}
    /\ c' = NoConn
    /\ successes' = IF e = "nil" THEN successes + 1 ELSE successes
    /\ idleMs' = 0
    /\ pc' = "ret"
    /\ UNCHANGED <<pid, driverVars, attempts>>

\* Mutant of Fatal: the error is returned to the caller like the other errors.
Fatal_AsReturn ==
    /\ result' = [dst |-> dst, rtt |-> 0, err |-> "fatal"]
    /\ openSocks' = IF c = NoConn THEN openSocks ELSE openSocks \ {c.id}
    /\ c' = NoConn
    /\ pc' = "ret"
    /\ UNCHANGED <<pid, idleMs, driverVars, attempts, successes>>

\* log.Fatal(error): the line is written and os.Exit(1) ends the process;
\* deferred calls do not run and nothing is returned.
Fatal ==
    /\ pc' = "exited"
    /\ logged' = logged \cup {"fatal"}
    /\ UNCHANGED <<pid, idleMs, sentCount, receivedCount, summaryLine, c, openSocks, result,
                   attempts, successes>>

\* ------------------------------------------------------------ main loop
\* for { sentCount++ ...
LoopTop ==
    /\ pc = "loop"
    /\ sentCount < MaxAttempts
    /\ sentCount' = sentCount + 1
    /\ logged' = {}
    /\ summaryLine' = NoSummary
    /\ pc' = "call"
    /\ UNCHANGED <<pid, idleMs, receivedCount, pingLocals, c, openSocks, result, attempts, successes>>

\* The local variables of an activation of ping exist from the call until the
\* closure has used the returned values.
ClearLocals ==
    /\ dst' = "nil" /\ branch' = 0 /\ b' = NoBytes /\ txCount' = 0 /\ rxCount' = 0
    /\ start' = 0 /\ now' = 0 /\ tDeadlineSet' = 0 /\ deadline' = 0 /\ tRead' = 0
    /\ reply' = NoReply /\ RTT' = 0 /\ rm' = NoMsg

\* ping(address) inside the closure: a fresh activation of ping.
CallPing ==
    /\ pc = "call"
    /\ attempts' = attempts + 1
    /\ result' = NoResult
    /\ pc' = "resolve"
    /\ UNCHANGED <<pid, idleMs, driverVars, pingLocals, c, openSocks, successes>>

\* ------------------------------------------------------------- ping()
\* dst, error := net.ResolveIPAddr("ip", address); if dst.IP.To4() != nil
ResolveOK ==
    /\ pc = "resolve"
    /\ \E a \in Addrs :
          /\ dst' = a
          /\ branch' = FamilyOf(a)
    /\ pc' = "listen"
    /\ UNCHANGED <<pid, idleMs, driverVars, c, openSocks, b, txCount, rxCount, start, now, tDeadlineSet,
                   deadline, tRead, reply, RTT, rm, result, attempts, successes>>

ResolveFail ==
    /\ pc = "resolve"
    /\ Fatal
    /\ UNCHANGED pingLocals

\* c, error := icmp.ListenPacket(network, ...); defer c.Close()
ListenOK ==
    /\ pc = "listen"
    /\ c' = [net |-> Network(branch), id |-> sentCount]
    /\ openSocks' = openSocks \cup {sentCount}
    /\ pc' = "marshal"
    /\ UNCHANGED <<pid, idleMs, driverVars, pingLocals, result, attempts, successes>>

\* Mutant of ListenFail: the error is handled with log.Fatal like its neighbours.
ListenFail_Fatal ==
    /\ pc = "listen"
    /\ Fatal
    /\ UNCHANGED pingLocals

ListenFail ==
    /\ pc = "listen"
    /\ Return("nil", 0, "listen")
    /\ UNCHANGED pingLocals

\* b, error := m.Marshal(nil)
MarshalOK ==
    /\ pc = "marshal"
    /\ b' = Marshal(branch, pid)
    /\ pc' = "write"
    /\ UNCHANGED <<pid, idleMs, driverVars, c, openSocks, dst, branch, txCount, rxCount, start, now,
                   tDeadlineSet, deadline, tRead, reply, RTT, rm, result, attempts, successes>>

\* The icmp package is not part of this repository: the code tests the error
\* m.Marshal returns, so both outcomes of the call are steps of the model.
MarshalFail ==
    /\ pc = "marshal"
    /\ Fatal
    /\ UNCHANGED pingLocals

\* start := time.Now(); n, error := c.WriteTo(b, udpDest)
WriteOK ==
    /\ pc = "write"
    /\ \E s \in StartTimes, d \in 0..MaxWriteDelay :
          /\ start' = s
          /\ now' = s + d
    /\ txCount' = txCount + 1
    /\ pc' = "deadline"
    /\ UNCHANGED <<pid, idleMs, driverVars, c, openSocks, dst, branch, b, rxCount, tDeadlineSet, deadline,
                   tRead, reply, RTT, rm, result, attempts, successes>>

WriteFail ==
    /\ pc = "write"
    /\ Fatal
    /\ UNCHANGED pingLocals

\* error = c.SetReadDeadline(time.Now().Add(500 * time.Millisecond))
SetReadDeadlineOK ==
    /\ pc = "deadline"
    /\ tDeadlineSet' = now
    /\ deadline' = DeadlineAt(now)
    /\ pc' = "read"
    /\ UNCHANGED <<pid, idleMs, driverVars, c, openSocks, dst, branch, b, txCount, rxCount, start, now,
                   tRead, reply, RTT, rm, result, attempts, successes>>

SetReadDeadlineFail ==
    /\ pc = "deadline"
    /\ Return(dst, 0, "deadline")
    /\ UNCHANGED pingLocals

\* n, peer, error := c.ReadFrom(response); RTT := time.Since(start)
\* A datagram that becomes readable before the deadline is returned.
ReadOK ==
    /\ pc = "read"
    /\ \E d \in ReplyDelays, dg \in Datagrams, p \in 0..MaxSchedDelay :
          /\ now + d < deadline
          /\ reply' = dg
          /\ tRead' = now + d
          /\ now' = now + d + p
          /\ RTT' = Since(start, now + d + p)
    /\ rxCount' = rxCount + 1
    /\ pc' = "parse"
    /\ UNCHANGED <<pid, idleMs, driverVars, c, openSocks, dst, branch, b, txCount, start,
                   tDeadlineSet, deadline, rm, result, attempts, successes>>

\* Mutant of ReadTimeout: the timeout is handled with log.Fatal.
ReadTimeout_Fatal ==
    /\ pc = "read"
    /\ Fatal
    /\ UNCHANGED pingLocals

\* Nothing readable before the deadline: ReadFrom returns the timeout error
\* once the deadline has passed.
ReadTimeout ==
    /\ pc = "read"
    /\ \E d \in ReplyDelays \cup {10 * Timeout} : now + d >= deadline
    /\ now' = deadline
    /\ Return(dst, 0, "timeout")
    /\ UNCHANGED <<dst, branch, b, txCount, rxCount, start, tDeadlineSet, deadline, tRead, reply, RTT, rm>>

\* Any other receive error.
ReadError ==
    /\ pc = "read"
    /\ Return(dst, 0, "read")
    /\ UNCHANGED pingLocals

\* rm, error := icmp.ParseMessage(proto, response[:n])
ParseMessageOK ==
    /\ pc = "parse"
    /\ ParseOK(reply)
    /\ rm' = ParseMessage(ParseProto(branch), reply)
    /\ pc' = "switch"
    /\ UNCHANGED <<pid, idleMs, driverVars, c, openSocks, dst, branch, b, txCount, rxCount, start, now,
                   tDeadlineSet, deadline, tRead, reply, RTT, result, attempts, successes>>

ParseMessageFail ==
    /\ pc = "parse"
    /\ ~ParseOK(reply)
    /\ Return(dst, 0, "parse")
    /\ UNCHANGED pingLocals

\* Mutant of SwitchEchoReply: the case compares the type number only, so the
\* echo-reply number of the other family also counts as a reply.
SwitchEchoReply_AnyFamily ==
    /\ pc = "switch"
    /\ rm.num \in {ICMPv4EchoReply.num, ICMPv6EchoReply.num}
    /\ Return(dst, RTT, "nil")
    /\ UNCHANGED pingLocals

\* switch rm.Type { case <echo reply>: return dst, RTT, nil
SwitchEchoReply ==
    /\ pc = "switch"
    /\ rm = EchoReplyType(branch)
    /\ Return(dst, RTT, "nil")
    /\ UNCHANGED pingLocals

\* Mutant of SwitchDefault: a message that is no echo reply is skipped and the
\* request is sent again.
SwitchDefault_Retry ==
    /\ pc = "switch"
    /\ rm # EchoReplyType(branch)
    /\ pc' = "write"
    /\ UNCHANGED <<pid, idleMs, driverVars, pingLocals, c, openSocks, result, attempts,
                   successes>>

\* Mutant of SwitchDefault: the error is returned together with the measured RTT.
SwitchDefault_KeepsRTT ==
    /\ pc = "switch"
    /\ rm # EchoReplyType(branch)
    /\ Return(dst, RTT, "unexpected")
    /\ UNCHANGED pingLocals

\* default: return dst, 0, fmt.Errorf("got %+v from %v", rm, peer)
SwitchDefault ==
    /\ pc = "switch"
    /\ rm # EchoReplyType(branch)
    /\ Return(dst, 0, "unexpected")
    /\ UNCHANGED pingLocals

\* ------------------------------------------------- the closure of main
\* Mutant of DriverResult: receivedCount++ stands after the if, not in its else.
DriverResult_CountsEveryReturn ==
    /\ pc = "ret"
    /\ logged' = logged \cup {IF result.err # "nil" THEN "placeholder" ELSE "ping"}
    /\ receivedCount' = receivedCount + 1
    /\ ClearLocals
    /\ pc' = "summary"
    /\ UNCHANGED <<pid, idleMs, sentCount, summaryLine, c, openSocks, result, attempts, successes>>

\* Mutant of DriverResult: the driver gives up after a failed attempt.
DriverResult_ExitOnError ==
    /\ pc = "ret"
    /\ IF result.err # "nil"
          THEN /\ logged' = logged \cup {"placeholder"}
               /\ receivedCount' = receivedCount
               /\ pc' = "exited"
          ELSE /\ logged' = logged \cup {"ping"}
               /\ receivedCount' = receivedCount + 1
               /\ pc' = "summary"
    /\ ClearLocals
    /\ UNCHANGED <<pid, idleMs, sentCount, summaryLine, c, openSocks, result, attempts, successes>>

\* if error != nil { log placeholder } else { log result; receivedCount++ }
DriverResult ==
    /\ pc = "ret"
    /\ IF result.err # "nil"
          THEN /\ logged' = logged \cup {"placeholder"}
               /\ receivedCount' = receivedCount
          ELSE /\ logged' = logged \cup {"ping"}
               /\ receivedCount' = receivedCount + 1
    /\ ClearLocals
    /\ pc' = "summary"
    /\ UNCHANGED <<pid, idleMs, sentCount, summaryLine, c, openSocks, result, attempts, successes>>

\* if sentCount%10 == 0 { pl := ...; log.Printf("Packet Loss: ...") }
Summary ==
    /\ pc = "summary"
    /\ IF SummaryDue(sentCount)
          THEN /\ summaryLine' = [pl |-> PacketLoss(sentCount, receivedCount),
                                  lost |-> sentCount - receivedCount,
                                  divisor |-> sentCount]
               /\ logged' = logged \cup {"summary"}
          ELSE UNCHANGED <<summaryLine, logged>>
    /\ pc' = "sleep"
    /\ UNCHANGED <<pid, idleMs, sentCount, receivedCount, pingLocals, c, openSocks, result,
                   attempts, successes>>

\* time.Sleep(2 * time.Second), then the next iteration of for
Sleep ==
    /\ pc = "sleep"
    /\ idleMs' = idleMs + SleepMs
    /\ pc' = "loop"
    /\ UNCHANGED <<pid, driverVars, pingLocals, c, openSocks, result, attempts, successes>>

Next ==
    \/ LoopTop
    \/ CallPing
    \/ ResolveOK
    \/ ResolveFail
    \/ ListenOK
    \/ ListenFail
    \/ MarshalOK
    \/ MarshalFail
    \/ WriteOK
    \/ WriteFail
    \/ SetReadDeadlineOK
    \/ SetReadDeadlineFail
    \/ ReadOK
    \/ ReadTimeout
    \/ ReadError
    \/ ParseMessageOK
    \/ ParseMessageFail
    \/ SwitchEchoReply
    \/ SwitchDefault
    \/ DriverResult
    \/ Summary
    \/ Sleep

Spec == Init /\ [][Next]_vars

\* The program is one thread whose blocking calls all return (the read is
\* bounded by its deadline, the sleep by its duration): a step that can be
\* taken is eventually taken.
FairSpec == Init /\ [][Next]_vars /\ WF_vars(Next)

\* ======================================================================
\* Properties
\* ======================================================================

\* The echo-reply type of the family of the address the attempt resolved.
ReplyTypeFor(ip) == IF FamilyOf(ip) = 4 THEN ICMPv4EchoReply ELSE ICMPv6EchoReply

\* C1: for both families ping returns Success (nil error, the measured RTT)
\* only when the parsed reply's type is the echo-reply type of the family of
\* that attempt; a parsed message of any other type is returned as an error
\* with RTT 0, and the driver does not count it as received.
C1_SuccessOnlyOnEchoReply ==
    /\ [](pc = "ret" =>
            /\ result.err = "nil" =>
                  (rm = ReplyTypeFor(dst) /\ result.rtt = RTT /\ result.dst = dst)
            /\ (rm # NoMsg /\ rm # ReplyTypeFor(dst)) =>
                  (result.err = "unexpected" /\ result.rtt = 0))
    /\ [][(pc = "ret" /\ rm # ReplyTypeFor(dst)) => receivedCount' = receivedCount]_vars

\* C1 witness: a destination-unreachable message was parsed and returned as
\* an error, in a run where an earlier attempt succeeded.
C1_Witness ==
    /\ pc = "summary"
    /\ result.err = "unexpected"
    /\ "placeholder" \in logged
    /\ receivedCount >= 1
    /\ receivedCount < sentCount

\* The thread of control is outside ping(): in the driver, or the process ended.
OutsidePing == pc \in {"loop", "call", "ret", "summary", "sleep", "exited"}

\* C2: at every summary the logged packet-loss percentage is the percentage
\* of sent probes that did not yield Success, 100 * (sent - received) / sent
\* (30 after 10 attempts with 3 failures).
C2_LossIsPercentage ==
    summaryLine # NoSummary =>
        summaryLine.pl = (100 * (sentCount - receivedCount)) \div sentCount

\* C3: on every exit path of an attempt that opened a socket, the paths that
\* abort the process included, the socket has been closed when the attempt ends.
C3_SocketClosedOnEveryExit == OutsidePing => openSocks = {}

\* C4 as stated: a failure to open the ICMP socket terminates the process.
C4_ListenFailureIsFatal == result.err = "listen" => pc = "exited"

\* C4 as amended: a failure to open the ICMP socket is returned to the driver
\* as (nil, 0, error); the process keeps running, the driver logs the
\* placeholder line, leaves receivedCount unchanged and goes on with the loop.
C4_ListenFailureIsReturned ==
    /\ [](result.err = "listen" =>
            (pc # "exited" /\ OutsidePing /\ result.dst = "nil" /\ result.rtt = 0))
    /\ [][(pc = "listen" /\ pc' # "marshal") => (pc' = "ret" /\ result'.err = "listen")]_vars
    /\ [][(pc = "ret" /\ result.err = "listen") =>
            (pc' = "summary" /\ "placeholder" \in logged' /\ receivedCount' = receivedCount)]_vars

\* C4 witness: the driver has begun the next attempt after a socket failure.
C4_Witness == pc = "call" /\ result.err = "listen" /\ sentCount >= 2

\* C5: a resolution, serialization or transmit failure aborts the process:
\* nothing is returned to the driver, no placeholder line and no summary are
\* logged for that attempt, and no further step is taken.
C5_FatalAborts ==
    /\ [][((pc = "resolve" /\ pc' # "listen") \/ (pc = "marshal" /\ pc' # "write")
            \/ (pc = "write" /\ pc' # "deadline")) => pc' = "exited"]_vars
    /\ [](pc = "exited" =>
            /\ result = NoResult
            /\ logged = {"fatal"}
            /\ attempts = sentCount)
    /\ [][pc # "exited"]_vars

\* C5 witness: the transmit of a later attempt failed and the process ended.
C5_Witness == pc = "exited" /\ b # NoBytes /\ sentCount >= 2

\* C6 as stated: whatever the outcome of an attempt (resolution, socket,
\* serialization and transmit failures included), after every attempt the
\* driver comes back to the top of its loop, where the next attempt begins.
C6_NextAttemptAlwaysBegins == (pc = "resolve") ~> (pc = "loop")

\* C6 as amended: the driver has no exit of its own, and after every attempt
\* that returns to the driver the loop comes back to its top; the process
\* ends only inside ping, at a resolution, serialization or transmit failure.
C6_ReturnedAttemptLeadsToNext ==
    /\ (pc = "ret") ~> (pc = "loop")
    /\ [][pc' = "exited" => pc \in {"resolve", "marshal", "write"}]_vars
    /\ [][(pc = "loop" /\ sentCount < MaxAttempts) => pc' = "call"]_vars

\* C6 witness: an attempt ended with an error and the loop is at its top again.
C6_Witness == pc = "loop" /\ result.err = "read" /\ sentCount >= 1

\* The last attempt ended with a timeout or with an unexpected reply.
NonFatalErr == result.err \in {"timeout", "unexpected"}

\* C7: a timeout or an unexpected reply is not fatal: ping returns to the
\* driver, which logs the placeholder line, leaves receivedCount unchanged and
\* goes on to the summary check, the sleep and the next attempt.
C7_TimeoutAndUnexpectedNonFatal ==
    /\ [][(pc \in {"read", "switch"} /\ pc' # "parse") => pc' = "ret"]_vars
    /\ [](NonFatalErr => (pc # "exited" /\ OutsidePing))
    /\ [][(pc = "ret" /\ NonFatalErr) =>
            (pc' = "summary" /\ logged' = {"placeholder"} /\ receivedCount' = receivedCount)]_vars
    /\ [][(pc = "summary" /\ NonFatalErr) => pc' = "sleep"]_vars
    /\ [][(pc = "sleep" /\ NonFatalErr) => pc' = "loop"]_vars
    /\ [][(pc = "loop" /\ NonFatalErr) => (pc' = "call" /\ sentCount' = sentCount + 1)]_vars

\* C7 witness: the driver has begun the next attempt after a timeout.
C7_Witness == pc = "call" /\ result.err = "timeout" /\ sentCount >= 2

\* C8: sentCount is the number of attempts started and receivedCount the
\* number of attempts that returned Success; neither decreases, sentCount
\* grows by exactly 1 per iteration, before the probe runs, and
\* 0 <= receivedCount <= sentCount.
C8_Counters ==
    /\ [](/\ sentCount = attempts + (IF pc = "call" THEN 1 ELSE 0)
          /\ successes = receivedCount + (IF pc = "ret" /\ result.err = "nil" THEN 1 ELSE 0)
          /\ 0 <= receivedCount
          /\ receivedCount <= sentCount)
    /\ [][/\ receivedCount' \in {receivedCount, receivedCount + 1}
          /\ sentCount' = sentCount + (IF pc = "loop" THEN 1 ELSE 0)
          /\ (attempts' # attempts) => sentCount = attempts + 1]_vars

\* C8 witness: three iterations are complete, two of them successful.
C8_Witness == pc = "loop" /\ sentCount = 3 /\ receivedCount = 2 /\ successes = 2

\* C9: the summary is computed and logged at the attempts whose number is a
\* positive multiple of 10 and at no other attempt, so the divisor sentCount is
\* at least 10 whenever the division is evaluated.
C9_SummaryOnlyEveryTenth ==
    /\ (pc \in {"sleep", "loop"}) =>
          (("summary" \in logged) <=> (sentCount >= 10 /\ sentCount % 10 = 0))
    /\ (pc \notin {"sleep", "loop"}) => ("summary" \notin logged)
    /\ ("summary" \in logged) <=> (summaryLine # NoSummary)
    /\ (summaryLine # NoSummary) =>
          (summaryLine.divisor = sentCount /\ summaryLine.divisor >= 10)

\* C9 witness: the second summary has been logged, at attempt 20.
C9_Witness == summaryLine # NoSummary /\ sentCount = 20

\* C10 as stated: every Success carries an RTT that is non-negative and
\* strictly less than the 500 ms timeout.
C10_RTTBelowTimeout ==
    (pc = "ret" /\ result.err = "nil") => (result.rtt >= 0 /\ result.rtt < Timeout)

\* C10 as amended: every Success carries a non-negative RTT, the time from the
\* start timestamp to the reading of the clock after the read; only the wait
\* from the setting of the deadline to the arrival of the datagram is less
\* than 500 ms, so the RTT is less than 500 ms plus the time spent before the
\* deadline was set and after the read returned.
C10_RTTBoundedByDeadlineWait ==
    (pc = "ret" /\ result.err = "nil") =>
        /\ result.rtt >= 0
        /\ result.rtt = now - start
        /\ start <= tDeadlineSet /\ tDeadlineSet <= tRead /\ tRead <= now
        /\ tRead - tDeadlineSet < Timeout
        /\ result.rtt < Timeout + (tDeadlineSet - start) + (now - tRead)

\* C10 witness: a Success whose RTT is not below the timeout.
C10_Witness == pc = "ret" /\ result.err = "nil" /\ result.rtt >= Timeout

\* The thread of control is inside ping().
InsidePing == pc \in {"resolve", "listen", "marshal", "write", "deadline", "read", "parse", "switch"}

\* C11: every attempt that starts ends, by a return to the driver or by the
\* end of the process; the read always runs under a deadline of 500 ms after
\* the clock reading taken when it was set, and when no datagram arrives the
\* attempt ends with the timeout error, at the deadline and not before.
C11_AttemptEndsAndTimeoutAtDeadline ==
    /\ InsidePing ~> (pc \in {"ret", "exited"})
    /\ [](pc = "read" => (deadline = tDeadlineSet + 500 /\ now < deadline))
    /\ [][(pc = "read" /\ pc' # "parse" /\ result'.err # "read") =>
            /\ pc' = "ret"
            /\ result' = [dst |-> dst, rtt |-> 0, err |-> "timeout"]
            /\ now' - tDeadlineSet >= 500
            /\ rxCount' = 0]_vars

\* C11 witness: a later attempt ended with the timeout error, 500 ms after
\* the deadline was set.
C11_Witness ==
    /\ pc = "ret"
    /\ result.err = "timeout"
    /\ now - tDeadlineSet = Timeout
    /\ sentCount >= 2

\* C12: at most one socket is open in every state; between attempts (after
\* ping has returned, during the summary and the sleep, and at the start of
\* the next attempt) no socket is open; each attempt opens a socket of its own.
C12_OneSocketPerAttempt ==
    /\ [](Cardinality(openSocks) <= 1)
    /\ [](pc \in {"ret", "summary", "sleep", "loop", "call", "resolve", "listen"} =>
            (openSocks = {} /\ c = NoConn))
    /\ [](c # NoConn => openSocks = {c.id})
    /\ [][(openSocks' # openSocks /\ openSocks' # {}) =>
            (pc = "listen" /\ openSocks = {} /\ openSocks' = {attempts})]_vars

\* C12 witness: the second attempt holds its own socket, the only one open.
C12_Witness == pc = "read" /\ attempts = 2 /\ openSocks = {2} /\ c.id = 2

\* C13: attempts are strictly sequential and each goes Idle -> Sent ->
\* {Replied, TimedOut, Failed}: within an attempt at most one request is
\* transmitted and at most one datagram read, nothing is retried, and the
\* request of the next attempt is transmitted only after the previous attempt
\* has ended and the 2 s sleep has passed.
C13_SequentialAttempts ==
    /\ [](txCount <= 1 /\ rxCount <= txCount)
    /\ [](txCount = 1 <=> pc \in {"deadline", "read", "parse", "switch"}
                          \/ (pc = "ret" /\ result.err \notin {"listen"}))
    /\ [][(txCount' > txCount) =>
            /\ pc = "write" /\ pc' = "deadline"
            /\ txCount = 0 /\ rxCount = 0
            /\ result = NoResult
            /\ attempts = sentCount
            /\ (attempts > 1 => idleMs >= 2000)]_vars
    /\ [][(rxCount' > rxCount) => (pc = "read" /\ rxCount = 0 /\ txCount = 1)]_vars
    /\ [][(pc \in {"deadline", "read", "parse", "switch"}) =>
            (pc' \in {"read", "parse", "switch", "ret"} /\ pc' # pc)]_vars
    /\ [][(InsidePing' /\ ~InsidePing) => (pc = "call" /\ idleMs = IF attempts = 0 THEN 0 ELSE 2000)]_vars

\* C13 witness: the request of the second attempt has been transmitted, 2 s
\* after the first attempt ended with a reply.
C13_Witness ==
    /\ pc = "deadline"
    /\ attempts = 2
    /\ txCount = 1
    /\ idleMs = SleepMs
    /\ receivedCount = 1

\* The resolved address of the attempt has an IPv4 representation.
IsV4 == dst \in {"192.0.2.1", "::ffff:192.0.2.1"}

\* C14: within an attempt the family chosen from the resolved address (IPv4
\* when it has an IPv4 representation, else IPv6) fixes every later step: udp4,
\* ICMPv4 echo, protocol 1 and the ICMPv4 echo reply for IPv4; udp6, ICMPv6
\* echo request, protocol 58 and the ICMPv6 echo reply for IPv6.
C14_FamilyConsistent ==
    /\ (branch # 0) => (branch = IF IsV4 THEN 4 ELSE 6)
    /\ (c # NoConn) => (c.net = IF IsV4 THEN "udp4" ELSE "udp6")
    /\ (b # NoBytes) => (b.type = IF IsV4 THEN [fam |-> 4, num |-> 8] ELSE [fam |-> 6, num |-> 128])
    /\ (rm # NoMsg) => (rm.fam = IF IsV4 THEN 4 ELSE 6)
    /\ (pc = "ret" /\ result.err = "nil") =>
          (rm = IF IsV4 THEN [fam |-> 4, num |-> 0] ELSE [fam |-> 6, num |-> 129])

\* C14 witness: an attempt to an IPv4-mapped IPv6 address succeeded on the
\* IPv4 path.
C14_Witness ==
    /\ pc = "ret"
    /\ dst = "::ffff:192.0.2.1"
    /\ result.err = "nil"
    /\ b.type = ICMPv4Echo
    /\ rm = ICMPv4EchoReply

\* C15: the probe does not verify the identity of the reply: a datagram read
\* before the deadline whose parsed type is the echo reply of the family is a
\* Success and is counted as received, whatever its identifier, sequence
\* number and peer.
C15_NoReplyIdentityCheck ==
    /\ [](pc = "ret" /\ rxCount = 1 /\ reply.n >= 4
            /\ reply.type = (IF IsV4 THEN 0 ELSE 129)
          => result = [dst |-> dst, rtt |-> RTT, err |-> "nil"])
    /\ [][(pc = "ret" /\ rxCount = 1 /\ reply.n >= 4 /\ reply.type = (IF IsV4 THEN 0 ELSE 129))
          => receivedCount' = receivedCount + 1]_vars

\* C15 witness: an echo reply from another peer, with another identifier and
\* another sequence number, was returned as a Success.
C15_Witness ==
    /\ pc = "ret"
    /\ result.err = "nil"
    /\ reply.peer # dst
    /\ reply.id # b.id
    /\ reply.seq # b.seq

\* C16: every echo request of the process carries the same identifier, the
\* process id masked to 16 bits, the sequence number 1, code 0 and an empty
\* payload, in every attempt and for both families.
C16_RequestFields ==
    /\ [](b # NoBytes =>
            /\ b.id = pid % 65536
            /\ b.id \in 0..65535
            /\ b.seq = 1
            /\ b.code = 0
            /\ b.len = 8)
    /\ [](txCount = 1 => b # NoBytes)
    /\ [][pid' = pid]_vars

\* C16 witness: a later attempt of a process whose id exceeds 16 bits has
\* transmitted its IPv6 request.
C16_Witness ==
    /\ pc = "deadline"
    /\ txCount = 1
    /\ pid = 70000
    /\ b.id = 4464
    /\ b.type = ICMPv6EchoRequest
    /\ sentCount >= 2

\* C17: the percentage logged at a summary is 0 or 100: 100 exactly when
\* receivedCount is 0, else 0; the lost-packet count on the same line is
\* sentCount - receivedCount.
C17_LossIsZeroOrHundred ==
    summaryLine # NoSummary =>
        /\ summaryLine.pl \in {0, 100}
        /\ (summaryLine.pl = 100) <=> (receivedCount = 0)
        /\ summaryLine.lost = sentCount - receivedCount

\* C17 witness: a summary that logs 0 % with three packets lost.
C17_Witness == summaryLine = [pl |-> 0, lost |-> 3, divisor |-> 10]

\* C18: ping returns a nil target only with a non-nil error, on the
\* socket-creation failure; a return with a nil error carries the resolved
\* address, a return with an error carries RTT 0, and the driver logs the
\* target and the RTT only on Success.
C18_ReturnValues ==
    /\ (result # NoResult /\ result.dst = "nil") => result.err = "listen"
    /\ (result.err = "listen") => result.dst = "nil"
    /\ (result.err = "nil") => (result.dst \in Addrs /\ (pc = "ret" => result.dst = dst))
    /\ (result.err # "nil") => result.rtt = 0
    /\ ("ping" \in logged) => (result.err = "nil" /\ result.dst \in Addrs)
    /\ (pc \in {"summary", "sleep"}) =>
          (logged \ {"summary"} = IF result.err = "nil" THEN {"ping"} ELSE {"placeholder"})

\* C18 witness: the driver logged the address and the RTT of a Success.
C18_Witness ==
    /\ pc = "summary"
    /\ logged = {"ping"}
    /\ result.dst = "2001:db8::1"
    /\ result.rtt > 0
    /\ result.err = "nil"

====
